---- MODULE Spec2Model ----
(***************************************************************************)
(* The persistence and ingestion engine of the photo album organizer:      *)
(* the SQLite metadata store (albums, photos) with its snapshot in         *)
(* localStorage, the IndexedDB blob store, photoService.add (the ingestion *)
(* pipeline), photoService.deletePhoto, albumService.create, update,       *)
(* reorderAlbums and deleteAlbum, the album listings, the UploadQueue of   *)
(* uploadService and initDatabase on a reload of the page.                 *)
(*                                                                         *)
(* The program runs on one event loop.  Code between two awaits is atomic; *)
(* an await is a point where another operation may run.  Each action below *)
(* is one such segment of one operation.  A segment that the event loop    *)
(* dispatches (a call, a settled request, a loaded image) starts only when *)
(* no continuation is queued as a microtask.                               *)
(***************************************************************************)
EXTENDS Integers, Sequences, FiniteSets, TLC

\* ---------------------------------------------------------------- bounds
MaxAlbums == 2
MaxBytes == 2
MaxPhotoId == 2
MaxTasks == 2
MaxFiles == 4
MaxFaults == 1
MaxAlbumId == 3
MaxDay == 2
MaxRoom == 1
MaxReloads == 1

\* ------------------------------------------------------ program constants
maxConcurrent == 3
MaxPhotosPerAlbum == 500
MaxAlbumCount == 100
MaxNameLength == 100

validFormats == {"image/jpeg", "image/png", "image/webp", "image/heic"}

\* The declared types the model offers to a call: one supported, one not.
FileTypes == {"image/jpeg", "image/gif"}

Files == [bytes : 1..MaxBytes, type : FileTypes]

NumSlots == IF MaxFiles > MaxTasks THEN MaxFiles ELSE MaxTasks
Slots == 1..NumSlots

VARIABLES
  albums,     \* rows of table albums: [id, name, date, custom_order,
              \* created_at]
  albumSeq,   \* AUTOINCREMENT sequence of table albums
  clock,      \* the last instant new Date() has returned
  photos,     \* rows of table photos: [id, album_id, file_hash]
  photoSeq,   \* AUTOINCREMENT sequence of table photos
  lastRowid,  \* the connection's last_insert_rowid()
  blobs,      \* records of the IndexedDB object store: [id, albumId, fileHash]
  task,       \* the operations in flight, by slot
  faults,     \* operations the environment has failed so far
  uq,         \* the UploadQueue of the uploadPhotos call; its three result
              \* lists are kept as sets of entries (one entry per file)
  saved,      \* localStorage: whether it is full, and item 'photo-album-db'
  boot        \* how the page was last loaded

vars == <<albums, albumSeq, clock, photos, photoSeq, lastRowid, blobs, task,
          faults, uq, saved, boot>>

\* ------------------------------------------------------------ error texts
ErrUnsupported == "Unsupported file format"
ErrLimit == "Album has reached maximum photo limit (500)"
ErrDuplicate == "Duplicate photo detected"
ErrImage == "Failed to load image"
ErrUnique == "UNIQUE constraint failed: photos.album_id, photos.file_hash"
ErrConstraint == "ConstraintError"
ErrQuota == "QuotaExceededError"
ErrNotFound == "not found"
ErrBlobDelete == "blob delete rejected"
ErrNameRequired == "Album name is required and must be a non-empty string"
ErrDateFormat == "Album date must be in YYYY-MM-DD format"
ErrDateInvalid == "Invalid date provided"
ErrAlbumLimit == "Maximum album limit (100) reached"
ErrNameEmpty == "Album name must be a non-empty string"
ErrNameLong == "Album name must be 100 characters or less"
Ok == "ok"

\* ---------------------------------------------------------------- helpers
Min(S) == CHOOSE x \in S : \A y \in S : x <= y

AlbumIds == {r.id : r \in albums}

\* The content fingerprint of a payload: equal bytes give equal digests,
\* different bytes different digests.
calculateFileHash(bytes) == 100 + bytes

countByAlbum(a) == Cardinality({r \in photos : r.album_id = a})

\* The query with its two parameters bound in the wrong order.
findByAlbumAndHashSwapped(a, h) ==
  {r \in photos : r.album_id = h /\ r.file_hash = a}

findByAlbumAndHash(a, h) == {r \in photos : r.album_id = a /\ r.file_hash = h}

findById(id) == {r \in photos : r.id = id}

\* The table without its unique index: every insert is accepted.
idx_photos_album_hash_missing(a, h) == TRUE

\* CREATE UNIQUE INDEX idx_photos_album_hash ON photos(album_id, file_hash)
idx_photos_album_hash(a, h) == ~ \E r \in photos : r.album_id = a /\ r.file_hash = h

\* objectStore.createIndex('fileHash', 'fileHash', { unique: true }): a put
\* is refused when another key holds the same fileHash.
fileHashIndex(id, h) == ~ \E b \in blobs : b.id # id /\ b.fileHash = h

getPhotosByAlbum(a) == {b.id : b \in {c \in blobs : c.albumId = a}}

\* ------------------------------------------------------------- persistence
\* The database that db.export() serializes: the rows and the
\* AUTOINCREMENT sequences (and the objects of the schema, which every
\* database has once the script has run on it).
Database ==
  [albums |-> albums, photos |-> photos, albumSeq |-> albumSeq,
   photoSeq |-> photoSeq]

NoDatabase == [albums |-> {}, photos |-> {}, albumSeq |-> 0, photoSeq |-> 0]

\* localStorage after a saveDatabase that stored its snapshot: the item is
\* the export of the database as it is.  While the item equals the database
\* it is not kept apart (stale is FALSE); a stale item is kept in db.
Synced == [full |-> FALSE, stale |-> FALSE, db |-> NoDatabase]

\* The database that item 'photo-album-db' holds.
Persisted == IF saved.stale THEN saved.db ELSE Database

\* saveDatabase, called by execute after db.run: setItem replaces the item
\* by the export of the database; when localStorage is full setItem throws,
\* the catch logs the error and the item stays as it was.
saveDatabase ==
  saved' = IF saved.full /\ Persisted # Database'
           THEN [saved EXCEPT !.stale = TRUE, !.db = Persisted]
           ELSE [saved EXCEPT !.stale = FALSE, !.db = NoDatabase]

\* The statements of the schema script in order: the object each creates
\* and whether it says IF NOT EXISTS.
schema ==
  << [name |-> "albums", ifNotExists |-> TRUE],
     [name |-> "idx_albums_date", ifNotExists |-> FALSE],
     [name |-> "idx_albums_custom_order", ifNotExists |-> FALSE],
     [name |-> "photos", ifNotExists |-> TRUE],
     [name |-> "idx_photos_album_id", ifNotExists |-> FALSE],
     [name |-> "idx_photos_file_hash", ifNotExists |-> FALSE],
     [name |-> "idx_photos_album_hash", ifNotExists |-> FALSE],
     [name |-> "album_order", ifNotExists |-> TRUE],
     [name |-> "idx_album_order_position", ifNotExists |-> FALSE] >>

\* The objects of a database on which the script has run.
SchemaObjects == {schema[i].name : i \in 1..Len(schema)}

\* db.run(schema) from statement n on a database that holds objects: a
\* CREATE of an object that exists is skipped when it says IF NOT EXISTS and
\* is an error ("already exists") otherwise, which ends the run.
RECURSIVE runSchema(_, _)
runSchema(objects, n) ==
  IF n > Len(schema) THEN TRUE
  ELSE IF schema[n].name \notin objects
       THEN runSchema(objects \cup {schema[n].name}, n + 1)
       ELSE schema[n].ifNotExists /\ runSchema(objects, n + 1)

\* A page load that has succeeded, before any reload.
Booted == [status |-> "ok", reloads |-> 0, after |-> {}, positions |-> {}]

\* ------------------------------------------------------------------ tasks
NoDate == [shape |-> "none", day |-> 0]

NoTask ==
  [kind |-> "none", pc |-> "idle", album |-> 0, bytes |-> 0, hash |-> 0,
   id |-> 0, list |-> {}, todo |-> {}, outcome |-> "",
   name |-> <<>>, date |-> NoDate, count |-> 0, max_order |-> -1,
   created_at |-> 0, albumIds |-> <<>>, updates |-> <<>>, before |-> {}]

\* No uploadPhotos call has been made.
NoUpload ==
  [pc |-> "idle", album |-> 0, files |-> <<>>, queue |-> <<>>, active |-> {},
   total |-> 0, completed |-> 0, woken |-> FALSE, progress |-> <<>>,
   successful |-> {}, duplicates |-> {}, failed |-> {}]

\* An operation that has settled: resolved (Ok) or rejected with a message.
Settled(t, msg) == [t EXCEPT !.pc = "done", !.bytes = 0, !.outcome = msg]

InFlight(t) == task[t].pc \notin {"idle", "done"}

AtRest == \A t \in Slots : ~InFlight(t)

AllIdle == \A t \in Slots : task[t].pc = "idle"

\* Inserts that operations in flight may still make.
PendingInserts ==
  Cardinality({t \in Slots : task[t].kind = "add"
                              /\ task[t].pc \in {"hash", "dims", "thumb"}})

\* The row that the i-th create of a database made: the album named "a",
\* dated on the first day, at the end of the custom order.
albumRow(i) ==
  [id |-> i, name |-> <<"a">>, date |-> [shape |-> "date", day |-> 1],
   custom_order |-> i - 1, created_at |-> i]

Init ==
  /\ albums = {albumRow(i) : i \in 1..MaxAlbums}
  /\ albumSeq = MaxAlbums
  /\ clock = MaxAlbums
  /\ photos = {}
  /\ photoSeq = 0
  /\ lastRowid = MaxAlbums
  /\ blobs = {}
  /\ task = [t \in Slots |-> NoTask]
  /\ faults = 0
  /\ uq = NoUpload
  /\ saved = Synced
  /\ boot = Booted

\* What the environment may answer to a request: success, or a failure
\* while it has failures left.
EnvChoices == IF faults < MaxFaults THEN BOOLEAN ELSE {TRUE}

\* --------------------------------------------------------------- event loop
\* An event loop that dispatches callbacks without regard to the microtasks
\* queued.
microtasksIgnored == {}

\* The continuations queued as microtasks.  Photo.create awaits the value
\* that execute has returned, so the segment that reads last_insert_rowid()
\* is queued the moment the INSERT has run; the event loop runs it before it
\* dispatches the next callback.
microtasks == {t \in Slots : task[t].kind = "add" /\ task[t].pc = "rowid"}

\* -------------------------------------------------------- photoService.add
\* The limit check with the comparison off by one.
photoLimitReachedStrict(n) == n > MaxPhotosPerAlbum

\* photoCount >= 500
photoLimitReached(n) == n >= MaxPhotosPerAlbum

\* The first segment with its two checks in the opposite order.
addStartLimitFirst(a, f) ==
  LET t0 == [NoTask EXCEPT !.kind = "add", !.album = a, !.bytes = f.bytes]
  IN  IF photoLimitReached(countByAlbum(a)) THEN Settled(t0, ErrLimit)
      ELSE IF f.type \notin validFormats THEN Settled(t0, ErrUnsupported)
      ELSE [t0 EXCEPT !.pc = "hash"]

\* The first segment of add: the format check and the count query run
\* before the first suspension; then the hash is requested.
addStart(a, f) ==
  LET t0 == [NoTask EXCEPT !.kind = "add", !.album = a, !.bytes = f.bytes]
  IN  IF f.type \notin validFormats THEN Settled(t0, ErrUnsupported)
      ELSE IF photoLimitReached(countByAlbum(a)) THEN Settled(t0, ErrLimit)
      ELSE [t0 EXCEPT !.pc = "hash"]

AddCall(t, a, f) ==
  /\ task[t].pc = "idle"
  /\ microtasks = {}
  /\ photoSeq + PendingInserts < MaxPhotoId
  /\ task' = [task EXCEPT ![t] = addStart(a, f)]
  /\ UNCHANGED <<albums, photos, photoSeq, lastRowid, blobs, uq, faults, albumSeq, clock, saved, boot>>

\* calculateFileHash resolves; the duplicate query runs in the same segment.
HashDone(t) ==
  /\ task[t].kind = "add" /\ task[t].pc = "hash"
  /\ microtasks = {}
  /\ LET h == calculateFileHash(task[t].bytes)
         t1 == [task[t] EXCEPT !.hash = h]
     IN  task' = [task EXCEPT ![t] =
                    IF findByAlbumAndHash(task[t].album, h) # {}
                    THEN Settled(t1, ErrDuplicate)
                    ELSE [t1 EXCEPT !.pc = "dims"]]
  /\ UNCHANGED <<albums, photos, photoSeq, lastRowid, blobs, uq, faults, albumSeq, clock, saved, boot>>

\* getImageDimensions settles: img.onload or img.onerror.
DimsDone(t) ==
  /\ task[t].kind = "add" /\ task[t].pc = "dims"
  /\ microtasks = {}
  /\ \E loaded \in EnvChoices :
       /\ faults' = IF loaded THEN faults ELSE faults + 1
       /\ task' = [task EXCEPT ![t] =
                     IF loaded THEN [task[t] EXCEPT !.pc = "thumb"]
                     ELSE Settled(task[t], ErrImage)]
  /\ UNCHANGED <<albums, photos, photoSeq, lastRowid, blobs, uq, albumSeq, clock, saved, boot>>

\* generateThumbnail resolves; Photo.create runs its INSERT in the same
\* segment.  The unique index refuses a second (album_id, file_hash).
ThumbDone(t) ==
  /\ task[t].kind = "add" /\ task[t].pc = "thumb"
  /\ microtasks = {}
  /\ IF idx_photos_album_hash(task[t].album, task[t].hash)
     THEN /\ photos' = photos \cup
                 {[id |-> photoSeq + 1, album_id |-> task[t].album,
                   file_hash |-> task[t].hash]}
          /\ photoSeq' = photoSeq + 1
          /\ lastRowid' = photoSeq + 1
          /\ task' = [task EXCEPT ![t].pc = "rowid"]
     ELSE /\ task' = [task EXCEPT ![t] = Settled(task[t], ErrUnique)]
          /\ UNCHANGED <<photos, photoSeq, lastRowid>>
  /\ UNCHANGED <<albums, blobs, uq, faults, albumSeq, clock, boot>>
  /\ IF idx_photos_album_hash(task[t].album, task[t].hash) THEN saveDatabase
     ELSE UNCHANGED saved

\* Photo.create resumes after the INSERT and reads last_insert_rowid().
RowidRead(t) ==
  /\ task[t].kind = "add" /\ task[t].pc = "rowid"
  /\ task' = [task EXCEPT ![t].pc = "store", ![t].id = lastRowid]
  /\ UNCHANGED <<albums, photos, photoSeq, lastRowid, blobs, uq, faults, albumSeq, clock, saved, boot>>

\* storePhoto: store.put under the id read; the medium may refuse the write,
\* and the unique fileHash index may refuse it.
StoreDone(t) ==
  /\ task[t].kind = "add" /\ task[t].pc = "store"
  /\ microtasks = {}
  /\ \E accepted \in EnvChoices :
       /\ faults' = IF accepted THEN faults ELSE faults + 1
       /\ IF ~accepted
          THEN /\ task' = [task EXCEPT ![t] = Settled(task[t], ErrQuota)]
               /\ UNCHANGED blobs
          ELSE IF ~fileHashIndex(task[t].id, task[t].hash)
          THEN /\ task' = [task EXCEPT ![t] = Settled(task[t], ErrConstraint)]
               /\ UNCHANGED blobs
          ELSE /\ blobs' = {b \in blobs : b.id # task[t].id} \cup
                      {[id |-> task[t].id, albumId |-> task[t].album,
                        fileHash |-> task[t].hash]}
               /\ task' = [task EXCEPT ![t] = Settled(task[t], Ok)]
  /\ UNCHANGED <<albums, photos, photoSeq, lastRowid, uq, albumSeq, clock, saved, boot>>

\* ------------------------------------------------ photoService.deletePhoto
\* Photo.findById runs before the first suspension; photo.delete() then
\* requests the blob delete.
DeletePhotoCall(t, id) ==
  /\ task[t].pc = "idle"
  /\ microtasks = {}
  /\ LET t0 == [NoTask EXCEPT !.kind = "deletePhoto", !.id = id]
     IN  task' = [task EXCEPT ![t] =
                    IF findById(id) = {} THEN Settled(t0, ErrNotFound)
                    ELSE [t0 EXCEPT !.pc = "delblob"]]
  /\ UNCHANGED <<albums, photos, photoSeq, lastRowid, blobs, uq, faults, albumSeq, clock, saved, boot>>

\* storage.deletePhoto: store.delete(photoId) succeeds (also for a key that
\* is not there) or is rejected by the medium.
DeleteBlobDone(t) ==
  /\ task[t].kind = "deletePhoto" /\ task[t].pc = "delblob"
  /\ microtasks = {}
  /\ \E accepted \in EnvChoices :
       /\ faults' = IF accepted THEN faults ELSE faults + 1
       /\ IF accepted
          THEN /\ blobs' = {b \in blobs : b.id # task[t].id}
               /\ task' = [task EXCEPT ![t].pc = "delrow"]
          ELSE /\ task' = [task EXCEPT ![t] = Settled(task[t], ErrBlobDelete)]
               /\ UNCHANGED blobs
  /\ UNCHANGED <<albums, photos, photoSeq, lastRowid, uq, albumSeq, clock, saved, boot>>

\* Photo.delete resumes: DELETE FROM photos WHERE id = ?
DeleteRowDone(t) ==
  /\ task[t].kind = "deletePhoto" /\ task[t].pc = "delrow"
  /\ photos' = {r \in photos : r.id # task[t].id}
  /\ task' = [task EXCEPT ![t] = Settled(task[t], Ok)]
  /\ UNCHANGED <<albums, photoSeq, lastRowid, blobs, uq, faults, albumSeq, clock, boot>>
  /\ saveDatabase

\* ------------------------------------------------ albumService.deleteAlbum
\* Album.findById runs before the first suspension; deletePhotosByAlbum then
\* requests the album's blob records through the albumId index.
DeleteAlbumCall(t, a) ==
  /\ task[t].pc = "idle"
  /\ microtasks = {}
  /\ LET t0 == [NoTask EXCEPT !.kind = "deleteAlbum", !.album = a]
     IN  task' = [task EXCEPT ![t] =
                    IF a \notin AlbumIds THEN Settled(t0, ErrNotFound)
                    ELSE [t0 EXCEPT !.pc = "listblobs"]]
  /\ UNCHANGED <<albums, photos, photoSeq, lastRowid, blobs, uq, faults, albumSeq, clock, saved, boot>>

\* getPhotosByAlbum resolves with the records found; the loop of
\* deletePhotosByAlbum requests the first delete.
ListBlobsDone(t) ==
  /\ task[t].kind = "deleteAlbum" /\ task[t].pc = "listblobs"
  /\ microtasks = {}
  /\ LET found == getPhotosByAlbum(task[t].album)
     IN  task' = [task EXCEPT ![t].list = found, ![t].todo = found,
                              ![t].pc = IF found = {} THEN "delphotos"
                                        ELSE "delblobs"]
  /\ UNCHANGED <<albums, photos, photoSeq, lastRowid, blobs, uq, faults, albumSeq, clock, saved, boot>>

\* One iteration of the loop: the delete of the next record settles.  A
\* rejected delete rejects deleteAlbum where it stands.
DeleteAlbumBlobDone(t) ==
  /\ task[t].kind = "deleteAlbum" /\ task[t].pc = "delblobs"
  /\ microtasks = {}
  /\ \E accepted \in EnvChoices :
       /\ faults' = IF accepted THEN faults ELSE faults + 1
       /\ LET id == Min(task[t].todo)
              rest == task[t].todo \ {id}
          IN  IF accepted
              THEN /\ blobs' = {b \in blobs : b.id # id}
                   /\ task' = [task EXCEPT ![t].todo = rest,
                                           ![t].pc = IF rest = {} THEN "delphotos"
                                                     ELSE "delblobs"]
              ELSE /\ task' = [task EXCEPT ![t] = Settled(task[t], ErrBlobDelete)]
                   /\ UNCHANGED blobs
  /\ UNCHANGED <<albums, photos, photoSeq, lastRowid, uq, albumSeq, clock, saved, boot>>

\* The rows left to ON DELETE CASCADE, which the connection does not enforce.
deletePhotoRowsByCascade(a) == photos

\* Album.delete, first statement: DELETE FROM photos WHERE album_id = ?
deletePhotoRows(a) == {r \in photos : r.album_id # a}

DeleteAlbumPhotos(t) ==
  /\ task[t].kind = "deleteAlbum" /\ task[t].pc = "delphotos"
  /\ photos' = deletePhotoRows(task[t].album)
  /\ task' = [task EXCEPT ![t].pc = "delorder"]
  /\ UNCHANGED <<albums, photoSeq, lastRowid, blobs, uq, faults, albumSeq, clock, boot>>
  /\ saveDatabase

\* Album.delete, second statement: DELETE FROM album_order WHERE album_id = ?
\* No code writes table album_order, so the statement removes nothing.
DeleteAlbumOrder(t) ==
  /\ task[t].kind = "deleteAlbum" /\ task[t].pc = "delorder"
  /\ task' = [task EXCEPT ![t].pc = "delalbum"]
  /\ UNCHANGED <<albums, photos, photoSeq, lastRowid, blobs, uq, faults, albumSeq, clock, boot>>
  /\ saveDatabase

\* Album.delete, third statement: DELETE FROM albums WHERE id = ?
DeleteAlbumRow(t) ==
  /\ task[t].kind = "deleteAlbum" /\ task[t].pc = "delalbum"
  /\ albums' = {r \in albums : r.id # task[t].album}
  /\ task' = [task EXCEPT ![t] = Settled(task[t], Ok)]
  /\ UNCHANGED <<photos, photoSeq, lastRowid, blobs, uq, faults, albumSeq, clock, boot>>
  /\ saveDatabase

\* The caller of a direct call takes the result.
Return(t) ==
  /\ task[t].pc = "done"
  /\ t \notin uq.active
  /\ task' = [task EXCEPT ![t] = NoTask]
  /\ UNCHANGED <<albums, photos, photoSeq, lastRowid, blobs, uq, faults, albumSeq, clock, saved, boot>>

\* ------------------------------------------------- uploadService.UploadQueue
\* The loop without its bound: everything queued starts at once.
startCountUnbounded(nActive, nQueued) == nQueued

\* Fixed batches: the next items start only when every active one is done.
startCountBatch(nActive, nQueued) ==
  IF nActive > 0 THEN 0
  ELSE IF nQueued < maxConcurrent THEN nQueued
  ELSE maxConcurrent

\* An inner loop that starts no item.
startCountNone(nActive, nQueued) == 0

\* The inner loop of process: while (active.length < maxConcurrent &&
\* queue.length > 0) start the next item.
startCount(nActive, nQueued) ==
  IF nActive >= maxConcurrent THEN 0
  ELSE IF nQueued < maxConcurrent - nActive THEN nQueued
  ELSE maxConcurrent - nActive

\* executeUpload's catch: error.message.includes('Duplicate photo')
isDuplicateMessage(msg) == msg = ErrDuplicate

\* One run of the body of process up to its next suspension: return when
\* nothing is queued or active; else start items (each runs the first
\* segment of photoService.add at once) and wait on Promise.race(active).
\* The pipeline of the k-th file of the batch lives in slot k.
processLoop(q) ==
  IF Len(q.queue) = 0 /\ q.active = {}
  THEN [uq |-> [q EXCEPT !.pc = "returned"], task |-> task]
  ELSE LET k == startCount(Cardinality(q.active), Len(q.queue))
           first == q.total - Len(q.queue)
           started == (first + 1)..(first + k)
       IN  [uq |-> [q EXCEPT !.queue = SubSeq(q.queue, k + 1, Len(q.queue)),
                             !.active = q.active \cup started,
                             !.pc = "waiting", !.woken = FALSE],
            task |-> [t \in Slots |->
                        IF t \in started THEN addStart(q.album, q.queue[t - first])
                        ELSE task[t]]]

\* uploadPhotos: a new UploadQueue(3), every file queued, and process run up
\* to its first suspension.
UploadPhotos(a, files) ==
  /\ uq.pc = "idle"
  /\ microtasks = {}
  /\ AllIdle
  /\ LET q == [uq EXCEPT !.album = a, !.files = files, !.queue = files,
                          !.total = Len(files)]
         r == processLoop(q)
     IN  uq' = r.uq /\ task' = r.task
  /\ UNCHANGED <<albums, photos, photoSeq, lastRowid, blobs, faults, albumSeq, clock, saved, boot>>

\* The callback reports the count of started files, not of completed ones.
onProgressStarted(q) ==
  Append(q.progress, [current |-> q.total - Len(q.queue), total |-> q.total])

\* onProgress(completed, total, result), called by the completion callback
\* right after completed++; the calls are kept in order in uq.progress.
onProgress(q) ==
  Append(q.progress, [current |-> q.completed + 1, total |-> q.total])

\* executeUpload without its else branch: an error that is no duplicate is
\* filed nowhere.
executeUploadUnfiled(q, t) ==
  [q EXCEPT
     !.successful = IF task[t].outcome = Ok
                    THEN @ \cup {[file |-> t, photo |-> task[t].id]} ELSE @,
     !.duplicates = IF task[t].outcome # Ok /\ isDuplicateMessage(task[t].outcome)
                    THEN @ \cup {[file |-> t, error |-> task[t].outcome]} ELSE @]

\* executeUpload after its await: the result of the pipeline in slot t is
\* filed under successful, duplicates or failed.
executeUpload(q, t) ==
  [q EXCEPT
     !.successful = IF task[t].outcome = Ok
                    THEN @ \cup {[file |-> t, photo |-> task[t].id]} ELSE @,
     !.duplicates = IF task[t].outcome # Ok /\ isDuplicateMessage(task[t].outcome)
                    THEN @ \cup {[file |-> t, error |-> task[t].outcome]} ELSE @,
     !.failed = IF task[t].outcome # Ok /\ ~isDuplicateMessage(task[t].outcome)
                THEN @ \cup {[file |-> t, error |-> task[t].outcome]} ELSE @]

\* A pipeline of the batch has settled: executeUpload files the result, the
\* completion callback counts it, takes the promise out of active and
\* reports progress, and the pending Promise.race resolves.
Settle(t) ==
  /\ task[t].pc = "done"
  /\ t \in uq.active
  /\ uq' = [executeUpload(uq, t) EXCEPT
       !.completed = @ + 1,
       !.progress = onProgress(uq),
       !.active = @ \ {t},
       !.woken = TRUE]
  /\ task' = [task EXCEPT ![t] = NoTask]
  /\ UNCHANGED <<albums, photos, photoSeq, lastRowid, blobs, faults, albumSeq, clock, saved, boot>>

\* The same completion when the onProgress call of the then-callback throws.
\* The callback has counted the file and taken the promise out of active;
\* the exception rejects the promise of then, so the catch-callback runs:
\* it counts again and calls onProgress again.  When that call throws too
\* (again), the promise in active rejects, and a Promise.race that no other
\* promise has settled yet rejects process.
SettleThrow(t, again) ==
  /\ task[t].pc = "done"
  /\ t \in uq.active
  /\ uq' = [executeUpload(uq, t) EXCEPT
       !.completed = @ + 2,
       !.progress = Append(onProgress(uq),
                           [current |-> uq.completed + 2, total |-> uq.total]),
       !.active = @ \ {t},
       !.woken = IF again THEN @ ELSE TRUE,
       !.pc = IF again /\ ~uq.woken THEN "rejected" ELSE @]
  /\ task' = [task EXCEPT ![t] = NoTask]
  /\ UNCHANGED <<albums, photos, photoSeq, lastRowid, blobs, faults, albumSeq, clock, saved, boot>>

\* process resumes from Promise.race and runs its loop again.
ProcessResume ==
  /\ uq.pc = "waiting"
  /\ uq.woken
  /\ LET r == processLoop(uq)
     IN  uq' = r.uq /\ task' = r.task
  /\ UNCHANGED <<albums, photos, photoSeq, lastRowid, blobs, faults, albumSeq, clock, saved, boot>>

\* The batches offered to uploadPhotos: up to MaxFiles files, each of a
\* supported or an unsupported type, their contents numbered in order of
\* first appearance.
Canonical(bs) ==
  \A i \in 1..Len(bs) :
    \/ bs[i] = 1
    \/ \E j \in 1..(i - 1) : bs[j] = bs[i] \/ bs[j] = bs[i] - 1

Batches ==
  {<<>>} \cup
  UNION {{[i \in 1..n |-> [bytes |-> bs[i], type |-> ty[i]]] :
            bs \in {c \in [1..n -> 1..MaxBytes] : Canonical(c)},
            ty \in [1..n -> FileTypes]} :
         n \in 1..MaxFiles}

\* ------------------------------------------------------------ album inputs
\* A name is a sequence of characters; Chars lists them in collating order.
Chars == <<" ", "a", "b">>

Rank(c) == CHOOSE i \in 1..Len(Chars) : Chars[i] = c

RECURSIVE trimStart(_)
trimStart(s) ==
  IF s # <<>> /\ Head(s) = " " THEN trimStart(Tail(s)) ELSE s

RECURSIVE trimEnd(_)
trimEnd(s) ==
  IF s # <<>> /\ s[Len(s)] = " " THEN trimEnd(SubSeq(s, 1, Len(s) - 1)) ELSE s

\* String.prototype.trim
trim(s) == trimEnd(trimStart(s))

\* A name of one character more than the limit of 100.
LongName == [i \in 1..(MaxNameLength + 1) |-> "a"]

\* The names offered to create: empty, blank, a short name padded with
\* blanks and a long one.
NameInputs == {<<>>, <<" ">>, <<" ", "b", " ">>, LongName}

\* A date argument: text that does not match /^\d{4}-\d{2}-\d{2}$/ (or is
\* empty), text that matches but is no date (new Date gives NaN), or the
\* date of day number day.  Text order of YYYY-MM-DD is the order of days.
DateInputs ==
  {[shape |-> "text", day |-> 0], [shape |-> "nodate", day |-> 0]} \cup
  {[shape |-> "date", day |-> d] : d \in 1..MaxDay}

\* The day the calls are made on; later days lie in the future.
Today == MaxDay - 1

matchesDatePattern(d) == d.shape # "text"

isValidDate(d) == d.shape = "date"

isFutureDate(d) == d.day > Today

\* ------------------------------------------------------------ album queries
\* The last position taken to be the number of albums less one.
maxOrderByCount == Cardinality(albums) - 1

\* SELECT MAX(custom_order) FROM albums, with (max_order ?? -1)
maxOrder == IF albums = {} THEN -1
            ELSE CHOOSE m \in {r.custom_order : r \in albums} :
                   \A r \in albums : r.custom_order <= m

\* The orders in which a SELECT may return the rows of albums.
AlbumListings ==
  {s \in [1..Cardinality(albums) -> albums] :
     \A i \in 1..Cardinality(albums) : \A j \in 1..Cardinality(albums) :
       s[i] = s[j] => i = j}

\* The listing with the opposite comparison.
findAllDescending ==
  {s \in AlbumListings :
     \A i \in 1..Len(s) : \A j \in 1..Len(s) :
       i < j => s[i].custom_order >= s[j].custom_order}

\* Album.findAll: SELECT * FROM albums ORDER BY custom_order ASC.  Rows with
\* equal keys come in an order the statement does not fix.
findAll ==
  {s \in AlbumListings :
     \A i \in 1..Len(s) : \A j \in 1..Len(s) :
       i < j => s[i].custom_order <= s[j].custom_order}

\* Album.findAllByDate(): ORDER BY date DESC, created_at DESC
findAllByDate ==
  {s \in AlbumListings :
     \A i \in 1..Len(s) : \A j \in 1..Len(s) :
       i < j => \/ s[i].date.day > s[j].date.day
                \/ /\ s[i].date.day = s[j].date.day
                   /\ s[i].created_at >= s[j].created_at}

\* ------------------------------------------------------ albumService.create
\* The limit check with the comparison off by one.
albumLimitReachedStrict(n) == n > MaxAlbumCount

\* existingAlbums.length >= 100
albumLimitReached(n) == n >= MaxAlbumCount

\* The first segment of create: the checks of name and date, then the
\* query of Album.findAll, whose result the call holds while suspended.
CreateCall(t, name, date) ==
  /\ task[t].pc = "idle"
  /\ microtasks = {}
  /\ LET t0 == [NoTask EXCEPT !.kind = "create", !.name = name, !.date = date]
     IN  task' = [task EXCEPT ![t] =
           IF Len(trim(name)) = 0 THEN Settled(t0, ErrNameRequired)
           ELSE IF ~matchesDatePattern(date) THEN Settled(t0, ErrDateFormat)
           ELSE IF ~isValidDate(date) THEN Settled(t0, ErrDateInvalid)
           ELSE [t0 EXCEPT !.pc = "limit", !.count = Cardinality(albums)]]
  /\ UNCHANGED <<albums, albumSeq, clock, photos, photoSeq, lastRowid, blobs,
                 faults, uq, saved, boot>>

\* create resumes: the limit check; then Album.create reads the clock and
\* runs the MAX query.
CreateLimit(t) ==
  /\ task[t].kind = "create" /\ task[t].pc = "limit"
  /\ IF albumLimitReached(task[t].count)
     THEN /\ task' = [task EXCEPT ![t] = Settled(task[t], ErrAlbumLimit)]
          /\ UNCHANGED clock
     ELSE /\ clock' = clock + 1
          /\ task' = [task EXCEPT ![t].pc = "insert",
                                  ![t].created_at = clock + 1,
                                  ![t].max_order = maxOrder]
  /\ UNCHANGED <<albums, albumSeq, photos, photoSeq, lastRowid, blobs,
                 faults, uq, saved, boot>>

\* Album.create resumes: custom_order = max_order + 1 and the INSERT, with
\* the trimmed name.
CreateInsert(t) ==
  /\ task[t].kind = "create" /\ task[t].pc = "insert"
  /\ albums' = albums \cup
       {[id |-> albumSeq + 1, name |-> trim(task[t].name),
         date |-> task[t].date, custom_order |-> task[t].max_order + 1,
         created_at |-> task[t].created_at]}
  /\ albumSeq' = albumSeq + 1
  /\ lastRowid' = albumSeq + 1
  /\ task' = [task EXCEPT ![t].pc = "albumid"]
  /\ UNCHANGED <<clock, photos, photoSeq, blobs, faults, uq, boot>>
  /\ saveDatabase

\* Album.create resumes and reads last_insert_rowid().
CreateRowid(t) ==
  /\ task[t].kind = "create" /\ task[t].pc = "albumid"
  /\ task' = [task EXCEPT ![t] = Settled([task[t] EXCEPT !.id = lastRowid], Ok)]
  /\ UNCHANGED <<albums, albumSeq, clock, photos, photoSeq, lastRowid, blobs,
                 faults, uq, saved, boot>>

\* ------------------------------------------------------ albumService.update
\* An UPDATE that also moves the row to the front of the custom order.
updateRowToFront(r, name, date) ==
  [r EXCEPT !.name = name, !.date = date, !.custom_order = 0]

\* Album.update: UPDATE albums SET name = ?, date = ?, updated_at = ? WHERE
\* id = ?  (updated_at is read by no query and is not kept in the rows).
updateRow(r, name, date) == [r EXCEPT !.name = name, !.date = date]

\* The first segment of update: the query of Album.findById.
UpdateCall(t, id, name, date) ==
  /\ task[t].pc = "idle"
  /\ microtasks = {}
  /\ task' = [task EXCEPT ![t] =
       [NoTask EXCEPT !.kind = "update", !.pc = "validate", !.album = id,
                      !.name = name, !.date = date,
                      !.count = IF id \in AlbumIds THEN 1 ELSE 0]]
  /\ UNCHANGED <<albums, albumSeq, clock, photos, photoSeq, lastRowid, blobs,
                 faults, uq, saved, boot>>

\* update resumes: not found, the checks of name and date, and the UPDATE
\* of Album.update (which changes nothing when the row has gone since).
UpdateValidate(t) ==
  /\ task[t].kind = "update" /\ task[t].pc = "validate"
  /\ LET msg == IF task[t].count = 0 THEN ErrNotFound
                ELSE IF Len(trim(task[t].name)) = 0 THEN ErrNameEmpty
                ELSE IF Len(trim(task[t].name)) > MaxNameLength THEN ErrNameLong
                ELSE IF ~matchesDatePattern(task[t].date) THEN ErrDateFormat
                ELSE IF ~isValidDate(task[t].date) THEN ErrDateInvalid
                ELSE Ok
     IN  IF msg # Ok
         THEN /\ task' = [task EXCEPT ![t] = Settled(task[t], msg)]
              /\ UNCHANGED albums
         ELSE /\ albums' = {IF r.id = task[t].album
                            THEN updateRow(r, trim(task[t].name), task[t].date)
                            ELSE r : r \in albums}
              /\ task' = [task EXCEPT ![t].pc = "updated"]
  /\ UNCHANGED <<albumSeq, clock, photos, photoSeq, lastRowid, blobs,
                 faults, uq, boot>>
  /\ IF task'[t].pc = "updated" THEN saveDatabase ELSE UNCHANGED saved

\* Album.update resumes after its UPDATE and returns.
UpdateDone(t) ==
  /\ task[t].kind = "update" /\ task[t].pc = "updated"
  /\ task' = [task EXCEPT ![t] = Settled(task[t], Ok)]
  /\ UNCHANGED <<albums, albumSeq, clock, photos, photoSeq, lastRowid, blobs,
                 faults, uq, saved, boot>>

\* ----------------------------------------------- albumService.reorderAlbums
\* The pairs <<album id, index>> of the ids of a list that are in albums.
RECURSIVE foundWithIndex(_, _)
foundWithIndex(list, n) ==
  IF n > Len(list) THEN <<>>
  ELSE (IF list[n] \in AlbumIds THEN << <<list[n], n - 1>> >> ELSE <<>>)
       \o foundWithIndex(list, n + 1)

\* The first segment of reorderAlbums: albumIds.map runs the query of
\* Album.findById for every id; the ids not found get no update.  The
\* positions at the time of the call are kept in before, for the statement
\* of what the call changed.
ReorderCall(t, list) ==
  /\ task[t].pc = "idle"
  /\ microtasks = {}
  /\ task' = [task EXCEPT ![t] =
       [NoTask EXCEPT !.kind = "reorder", !.pc = "reorder", !.albumIds = list,
                      !.updates = foundWithIndex(list, 1),
                      !.before = {<<r.id, r.custom_order>> : r \in albums}]]
  /\ UNCHANGED <<albums, albumSeq, clock, photos, photoSeq, lastRowid, blobs,
                 faults, uq, saved, boot>>

\* The callback of the next album found: album.updateOrder(index), i.e.
\* UPDATE albums SET custom_order = ? WHERE id = ?
ReorderUpdate(t) ==
  /\ task[t].kind = "reorder" /\ task[t].pc = "reorder"
  /\ task[t].updates # <<>>
  /\ LET u == Head(task[t].updates)
     IN  albums' = {IF r.id = u[1] THEN [r EXCEPT !.custom_order = u[2]] ELSE r :
                      r \in albums}
  /\ task' = [task EXCEPT ![t].updates = Tail(@)]
  /\ UNCHANGED <<albumSeq, clock, photos, photoSeq, lastRowid, blobs,
                 faults, uq, boot>>
  /\ saveDatabase

\* Promise.all resolves when every callback has run; reorderAlbums returns.
ReorderDone(t) ==
  /\ task[t].kind = "reorder" /\ task[t].pc = "reorder"
  /\ task[t].updates = <<>>
  /\ task' = [task EXCEPT ![t] = Settled(task[t], Ok)]
  /\ UNCHANGED <<albums, albumSeq, clock, photos, photoSeq, lastRowid, blobs,
                 faults, uq, saved, boot>>

\* The lists offered to reorderAlbums: up to MaxAlbumId ids, in any order,
\* none repeated, among them one id that no album ever has.
ReorderLists ==
  UNION {{s \in [1..n -> 1..(MaxAlbumId + 1)] :
            \A i \in 1..n : \A j \in 1..n : s[i] = s[j] => i = j} :
         n \in 0..MaxAlbumId}

\* ---------------------------------------------------------- specifications
\* The lowest free slot takes the next direct call.
FreeSlot == Min({t \in 1..MaxTasks : task[t].pc = "idle"})

\* Direct calls arrive while others are in flight, up to MaxTasks at once.
Concurrent == \E t \in 1..MaxTasks : task[t].pc = "idle"

StepAdd ==
  \/ \E t \in Slots : HashDone(t)
  \/ \E t \in Slots : DimsDone(t)
  \/ \E t \in Slots : ThumbDone(t)
  \/ \E t \in Slots : RowidRead(t)
  \/ \E t \in Slots : StoreDone(t)

Step ==
  \/ StepAdd
  \/ \E t \in Slots : DeleteBlobDone(t)
  \/ \E t \in Slots : DeleteRowDone(t)
  \/ \E t \in Slots : ListBlobsDone(t)
  \/ \E t \in Slots : DeleteAlbumBlobDone(t)
  \/ \E t \in Slots : DeleteAlbumPhotos(t)
  \/ \E t \in Slots : DeleteAlbumOrder(t)
  \/ \E t \in Slots : DeleteAlbumRow(t)
  \/ \E t \in Slots : Return(t)

Next ==
  \/ \E a \in 1..MaxAlbums, f \in Files : Concurrent /\ AddCall(FreeSlot, a, f)
  \/ \E id \in 1..MaxPhotoId : Concurrent /\ DeletePhotoCall(FreeSlot, id)
  \/ \E a \in 1..MaxAlbums : Concurrent /\ DeleteAlbumCall(FreeSlot, a)
  \/ Step

Spec == Init /\ [][Next]_vars

\* One call at a time: a call starts when no other is in flight or unreturned.
NextSeq ==
  \/ \E a \in 1..MaxAlbums, f \in Files : AllIdle /\ AddCall(1, a, f)
  \/ \E id \in 1..MaxPhotoId : AllIdle /\ DeletePhotoCall(1, id)
  \/ \E a \in 1..MaxAlbums : AllIdle /\ DeleteAlbumCall(1, a)
  \/ Step

SpecSeq == Init /\ [][NextSeq]_vars

\* One uploadPhotos call into the first album, on the fresh stores.
NextUpload ==
  \/ \E files \in Batches : UploadPhotos(1, files)
  \/ StepAdd
  \/ \E t \in Slots : Settle(t)
  \/ ProcessResume

SpecUpload == Init /\ [][NextUpload]_vars

\* The same, when every request of a pipeline is answered in the end (the
\* hash, the image, the thumbnail, the blob write) and the event loop runs
\* every continuation that is due: the completion callbacks and the
\* continuation of process after Promise.race.
SpecUploadFair ==
  /\ SpecUpload
  /\ WF_vars(StepAdd)
  /\ WF_vars(\E t \in Slots : Settle(t))
  /\ WF_vars(ProcessResume)

\* A database that initDatabase has just created: the schema and no row.
InitFresh ==
  /\ albums = {}
  /\ albumSeq = 0
  /\ clock = 0
  /\ photos = {}
  /\ photoSeq = 0
  /\ lastRowid = 0
  /\ blobs = {}
  /\ task = [t \in Slots |-> NoTask]
  /\ faults = 0
  /\ uq = NoUpload
  /\ saved = Synced
  /\ boot = Booted

StepAlbum ==
  \/ \E t \in Slots : CreateLimit(t)
  \/ \E t \in Slots : CreateInsert(t)
  \/ \E t \in Slots : CreateRowid(t)
  \/ \E t \in Slots : ReorderUpdate(t)
  \/ \E t \in Slots : ReorderDone(t)
  \/ \E t \in Slots : ListBlobsDone(t)
  \/ \E t \in Slots : DeleteAlbumPhotos(t)
  \/ \E t \in Slots : DeleteAlbumOrder(t)
  \/ \E t \in Slots : DeleteAlbumRow(t)
  \/ \E t \in Slots : Return(t)

\* The album calls, one at a time, on a fresh database that holds no photo.
NextAlbums ==
  \/ \E name \in NameInputs, date \in DateInputs :
       AllIdle /\ albumSeq < MaxAlbumId /\ CreateCall(1, name, date)
  \/ \E list \in ReorderLists : AllIdle /\ ReorderCall(1, list)
  \/ \E a \in 1..MaxAlbumId : AllIdle /\ DeleteAlbumCall(1, a)
  \/ StepAlbum

SpecAlbums == InitFresh /\ [][NextAlbums]_vars

\* The row and the blob record of the i-th photo that earlier uploads have
\* stored in the first album; its content is none of those offered now.
storedPhotoRow(i) ==
  [id |-> i, album_id |-> 1, file_hash |-> calculateFileHash(MaxBytes + i)]

storedPhotoBlob(i) ==
  [id |-> i, albumId |-> 1, fileHash |-> calculateFileHash(MaxBytes + i)]

\* A database that holds MaxAlbums albums and, in the first of them, one
\* photo that an earlier upload has stored.
InitStored ==
  /\ albums = {albumRow(i) : i \in 1..MaxAlbums}
  /\ albumSeq = MaxAlbums
  /\ clock = MaxAlbums
  /\ photos = {storedPhotoRow(1)}
  /\ blobs = {storedPhotoBlob(1)}
  /\ photoSeq = 1
  /\ lastRowid = 1
  /\ task = [t \in Slots |-> NoTask]
  /\ faults = 0
  /\ uq = NoUpload
  /\ saved = Synced
  /\ boot = Booted

\* update and reorderAlbums, one call at a time.
NextAlbumUpdate ==
  \/ \E id \in 1..MaxAlbumId, name \in NameInputs, date \in DateInputs :
       AllIdle /\ UpdateCall(1, id, name, date)
  \/ \E list \in ReorderLists : AllIdle /\ ReorderCall(1, list)
  \/ \E t \in Slots : UpdateValidate(t)
  \/ \E t \in Slots : UpdateDone(t)
  \/ \E t \in Slots : ReorderUpdate(t)
  \/ \E t \in Slots : ReorderDone(t)
  \/ \E t \in Slots : Return(t)

SpecAlbumUpdate == InitStored /\ [][NextAlbumUpdate]_vars

\* The page is loaded again while no operation is in flight: initDatabase
\* finds item 'photo-album-db', opens the database it holds on a new
\* connection and runs the schema script on it; when the script fails
\* initDatabase throws and the page shows that it failed to load.  boot
\* keeps the calls that had settled and the positions of the albums at the
\* moment of the reload, for the statement of what a reload preserves.
InitDatabase ==
  /\ boot.reloads < MaxReloads
  /\ AtRest
  /\ albums' = Persisted.albums
  /\ photos' = Persisted.photos
  /\ albumSeq' = Persisted.albumSeq
  /\ photoSeq' = Persisted.photoSeq
  /\ lastRowid' = 0
  /\ task' = [t \in Slots |-> NoTask]
  /\ uq' = NoUpload
  /\ boot' = [status |-> IF runSchema(SchemaObjects, 1) THEN "ok" ELSE "failed",
              reloads |-> boot.reloads + 1,
              after |-> {<<task[t].kind, task[t].outcome>> :
                           t \in {u \in Slots : task[u].pc = "done"}},
              positions |-> {<<r.id, r.custom_order>> : r \in albums}]
  /\ saved' = [saved EXCEPT !.stale = FALSE, !.db = NoDatabase]
  /\ UNCHANGED <<clock, blobs, faults>>

\* A database that holds MaxAlbums albums, all of them saved, and a
\* localStorage that has room or has become full since.
InitPersist ==
  /\ albums = {albumRow(i) : i \in 1..MaxAlbums}
  /\ albumSeq = MaxAlbums
  /\ clock = MaxAlbums
  /\ photos = {}
  /\ photoSeq = 0
  /\ lastRowid = MaxAlbums
  /\ blobs = {}
  /\ task = [t \in Slots |-> NoTask]
  /\ faults = 0
  /\ uq = NoUpload
  /\ \E full \in BOOLEAN : saved = [Synced EXCEPT !.full = full]
  /\ boot = Booted

\* create and reorderAlbums, one call at a time while the page is up, and
\* reloads of the page.
NextPersist ==
  \/ \E name \in NameInputs, date \in DateInputs :
       /\ boot.status = "ok" /\ AllIdle /\ albumSeq < MaxAlbumId
       /\ CreateCall(1, name, date)
  \/ \E list \in ReorderLists :
       boot.status = "ok" /\ AllIdle /\ ReorderCall(1, list)
  \/ \E t \in Slots : CreateLimit(t)
  \/ \E t \in Slots : CreateInsert(t)
  \/ \E t \in Slots : CreateRowid(t)
  \/ \E t \in Slots : ReorderUpdate(t)
  \/ \E t \in Slots : ReorderDone(t)
  \/ \E t \in Slots : Return(t)
  \/ InitDatabase

SpecPersist == InitPersist /\ [][NextPersist]_vars

\* A database loaded with albums up to MaxRoom short of the album limit,
\* and no photo.
InitNearAlbumLimit ==
  /\ \E n \in (MaxAlbumCount - MaxRoom)..MaxAlbumCount :
       /\ albums = {albumRow(i) : i \in 1..n}
       /\ albumSeq = n
       /\ clock = n
       /\ lastRowid = n
  /\ photos = {}
  /\ photoSeq = 0
  /\ blobs = {}
  /\ task = [t \in Slots |-> NoTask]
  /\ faults = 0
  /\ uq = NoUpload
  /\ saved = Synced
  /\ boot = Booted

\* create calls, up to MaxTasks at once, near the album limit.
NextAlbumLimit ==
  \/ \E name \in NameInputs, date \in DateInputs :
       Concurrent /\ CreateCall(FreeSlot, name, date)
  \/ \E t \in Slots : CreateLimit(t)
  \/ \E t \in Slots : CreateInsert(t)
  \/ \E t \in Slots : CreateRowid(t)
  \/ \E t \in Slots : Return(t)

SpecAlbumLimit == InitNearAlbumLimit /\ [][NextAlbumLimit]_vars

\* A database whose first album holds photos up to MaxRoom short of the
\* photo limit.
InitNearPhotoLimit ==
  /\ albums = {albumRow(i) : i \in 1..MaxAlbums}
  /\ albumSeq = MaxAlbums
  /\ clock = MaxAlbums
  /\ \E n \in (MaxPhotosPerAlbum - MaxRoom)..MaxPhotosPerAlbum :
       /\ photos = {storedPhotoRow(i) : i \in 1..n}
       /\ blobs = {storedPhotoBlob(i) : i \in 1..n}
       /\ photoSeq = n
       /\ lastRowid = n
  /\ task = [t \in Slots |-> NoTask]
  /\ faults = 0
  /\ uq = NoUpload
  /\ saved = Synced
  /\ boot = Booted

\* The batches whose files all have a supported type.
SupportedBatches ==
  {files \in Batches : \A i \in 1..Len(files) : files[i].type \in validFormats}

\* The batches whose files all have the same type, supported or not.
UniformBatches ==
  {files \in Batches :
     \A i \in 1..Len(files) : \A j \in 1..Len(files) :
       files[i].type = files[j].type}

\* One uploadPhotos call, of files of one type, into the first album when it
\* is nearly full.
NextPhotoLimit ==
  \/ \E files \in UniformBatches : UploadPhotos(1, files)
  \/ StepAdd
  \/ \E t \in Slots : Settle(t)
  \/ ProcessResume

SpecPhotoLimit == InitNearPhotoLimit /\ [][NextPhotoLimit]_vars

\* One uploadPhotos call, of files of supported types, whose onProgress
\* callback may throw.
NextUploadThrow ==
  \/ \E files \in SupportedBatches : UploadPhotos(1, files)
  \/ StepAdd
  \/ \E t \in Slots : Settle(t)
  \/ \E t \in Slots, again \in BOOLEAN : SettleThrow(t, again)
  \/ ProcessResume

SpecUploadThrow == Init /\ [][NextUploadThrow]_vars

\* ------------------------------------------------------------------ claims
\* Failures that come from the environment, not from the engine's rules: the
\* image does not load, the storage medium refuses a write.
EnvFailures == {ErrImage, ErrQuota}

\* A photo of album a with fingerprint h that a successful add has stored:
\* its row and, under the same id, its blob record.
Stored(a, h, id) ==
  /\ [id |-> id, album_id |-> a, file_hash |-> h] \in photos
  /\ [id |-> id, albumId |-> a, fileHash |-> h] \in blobs

C2_SameBytesInTwoAlbums ==
  \A t \in Slots :
    (/\ task[t].kind = "add" /\ task[t].pc = "done" /\ task[t].hash # 0
     /\ task[t].album \in AlbumIds
     /\ \E r \in photos : /\ r.album_id # task[t].album
                          /\ r.album_id \in AlbumIds
                          /\ Stored(r.album_id, task[t].hash, r.id)
     /\ \A r \in photos : (r.album_id = task[t].album /\ r.file_hash = task[t].hash)
                             => r.id = task[t].id
     /\ task[t].outcome \notin EnvFailures)
    => /\ task[t].outcome = Ok
       /\ Stored(task[t].album, task[t].hash, task[t].id)

\* C3: in every reachable state at most one Photo row exists per pair
\* (album id, content fingerprint).
C3_OneRowPerAlbumAndHash ==
  \A r1 \in photos : \A r2 \in photos :
    (r1.album_id = r2.album_id /\ r1.file_hash = r2.file_hash) => r1.id = r2.id

\* Two ingests of the same content into one album were in flight together:
\* both passed the duplicate query, one committed, the other was refused.
C3_Witness ==
  \E t \in Slots :
    /\ task[t].kind = "add" /\ task[t].pc = "done" /\ task[t].outcome = ErrUnique
    /\ \E r \in photos : r.album_id = task[t].album /\ r.file_hash = task[t].hash

\* Exactly two files of the batch are byte-identical, all others distinct.
OneIdenticalPair(files) ==
  Cardinality({p \in (1..Len(files)) \X (1..Len(files)) :
                 p[1] < p[2] /\ files[p[1]].bytes = files[p[2]].bytes}) = 1

\* C4: a batch of n valid files into an empty album with exactly one
\* byte-identical pair returns n-1 successful, 1 duplicate and 0 failed
\* entries (when the environment fails no file).
C4_LoserIsDuplicate ==
  (/\ uq.pc = "returned"
   /\ \A i \in 1..Len(uq.files) : uq.files[i].type \in validFormats
   /\ OneIdenticalPair(uq.files)
   /\ \A e \in uq.failed : e.error \notin EnvFailures)
  => /\ Cardinality(uq.successful) = Len(uq.files) - 1
     /\ Cardinality(uq.duplicates) = 1
     /\ Cardinality(uq.failed) = 0

\* C5: with no operation in flight, a blob record with id p exists exactly
\* when a Photo row with id p exists.
C5_ParityAtRest ==
  AtRest => {b.id : b \in blobs} = {r.id : r \in photos}

\* C6: every blob record has a Photo row with the same id, in every state.
C6_NoOrphanBlob ==
  \A b \in blobs : \E r \in photos : r.id = b.id

\* C7: calls made one after another: when deleteAlbum(id) has returned
\* successfully, no Photo row and no blob record of album id is left and
\* the album row is gone.
C7_DeleteAlbumLeavesNothing ==
  \A t \in Slots :
    (task[t].kind = "deleteAlbum" /\ task[t].pc = "done" /\ task[t].outcome = Ok)
    => /\ ~ \E r \in photos : r.album_id = task[t].album
       /\ ~ \E b \in blobs : b.albumId = task[t].album
       /\ ~ \E r \in albums : r.id = task[t].album

\* A successful deleteAlbum of an album that held stored photos, while a
\* photo of another album stays.
C7_Witness ==
  \E t \in Slots :
    /\ task[t].kind = "deleteAlbum" /\ task[t].pc = "done" /\ task[t].outcome = Ok
    /\ task[t].list # {}
    /\ photos # {}

\* C8: calls made one after another: when deleteAlbum(id) has ended with a
\* failure of the cascade, the album row and every photo the cascade found
\* (row and blob record) are still there.
C8_DeleteAlbumAllOrNothing ==
  \A t \in Slots :
    (/\ task[t].kind = "deleteAlbum" /\ task[t].pc = "done"
     /\ task[t].outcome \notin {Ok, ErrNotFound})
    => /\ \E r \in albums : r.id = task[t].album
       /\ \A id \in task[t].list :
            /\ \E r \in photos : r.id = id
            /\ \E b \in blobs : b.id = id

\* The pipelines that process has started and that have not completed.
Started == {t \in Slots : task[t].kind = "add" /\ task[t].pc # "idle"}

\* C9: while process runs, never more than maxConcurrent pipelines are
\* started and not yet completed.
C9_AtMostMaxConcurrent ==
  Cardinality(Started) <= maxConcurrent

\* The window is full while files are still queued.
C9_Witness ==
  /\ Cardinality(Started) = maxConcurrent
  /\ Len(uq.queue) > 0

\* C10: whenever process waits for a completion that has not happened yet,
\* the number of pipelines in flight is min(maxConcurrent, files not yet
\* completed).
C10_SlidingWindow ==
  (uq.pc = "waiting" /\ ~uq.woken)
  => Cardinality(Started) =
       (IF uq.total - uq.completed < maxConcurrent
        THEN uq.total - uq.completed ELSE maxConcurrent)

\* After a first completion the queued file was started beside the two
\* pipelines still running, and process waits again.
C10_Witness ==
  /\ uq.pc = "waiting" /\ ~uq.woken
  /\ uq.completed = 1
  /\ Cardinality(Started) = maxConcurrent
  /\ \E t \in Started : task[t].pc = "hash"
  /\ \E t \in Started : task[t].pc \notin {"hash", "done"}

\* C11: for a batch of total > 0 files, onProgress has been called once per
\* completed file, with current = 1, 2, ... in that order and the batch's
\* total every time; when uploadPhotos has returned there were total calls,
\* the last with current = total.
C11_ProgressCountsUp ==
  /\ Len(uq.progress) = uq.completed
  /\ \A i \in 1..Len(uq.progress) :
        uq.progress[i] = [current |-> i, total |-> Len(uq.files)]
  /\ (uq.pc = "returned" /\ Len(uq.files) > 0)
     => /\ Len(uq.progress) = Len(uq.files)
        /\ uq.progress[Len(uq.progress)].current = Len(uq.files)

\* A batch larger than the window has returned after MaxFiles reports.
C11_Witness ==
  /\ uq.pc = "returned"
  /\ Len(uq.files) = MaxFiles
  /\ Len(uq.progress) = MaxFiles
  /\ uq.progress[MaxFiles].current = MaxFiles

\* The input files (by position) that a result list names.
FilesIn(list) == {e.file : e \in list}

\* C12: when uploadPhotos has returned, every input file is in exactly one
\* of successful, duplicates and failed, and the three lengths sum to the
\* number of input files; uploadPhotos returns whatever errors occurred.
C12_TriPartition ==
  uq.pc = "returned"
  => /\ FilesIn(uq.successful) \cup FilesIn(uq.duplicates) \cup FilesIn(uq.failed)
          = 1..Len(uq.files)
     /\ FilesIn(uq.successful) \cap FilesIn(uq.duplicates) = {}
     /\ FilesIn(uq.successful) \cap FilesIn(uq.failed) = {}
     /\ FilesIn(uq.duplicates) \cap FilesIn(uq.failed) = {}
     /\ Cardinality(uq.successful) + Cardinality(uq.duplicates)
          + Cardinality(uq.failed) = Len(uq.files)

\* A returned batch with a validation error, a duplicate and a success: the
\* failures did not keep the other files from being stored.
C12_Witness ==
  /\ uq.pc = "returned"
  /\ \E e \in uq.failed : e.error = ErrUnsupported
  /\ uq.duplicates # {}
  /\ \E e \in uq.successful :
        e.file > Min(FilesIn(uq.failed) \cup FilesIn(uq.duplicates))

\* The ids of a listing, in its order.
IdsOf(s) == [i \in 1..Len(s) |-> s[i].id]

\* C13: calls made one after another: when reorderAlbums has returned for a
\* list that is a permutation of the ids of all albums, the listing in
\* custom order returns the albums in exactly the order of the list.
C13_ListingFollowsReorder ==
  \A t \in Slots :
    (/\ task[t].kind = "reorder" /\ task[t].pc = "done"
     /\ {task[t].albumIds[i] : i \in 1..Len(task[t].albumIds)} = AlbumIds)
    => /\ findAll # {}
       /\ \A s \in findAll : IdsOf(s) = task[t].albumIds

\* A reorder of MaxAlbumId albums that moved the last album to the front.
C13_Witness ==
  \E t \in Slots :
    /\ task[t].kind = "reorder" /\ task[t].pc = "done"
    /\ Len(task[t].albumIds) = MaxAlbumId
    /\ {task[t].albumIds[i] : i \in 1..Len(task[t].albumIds)} = AlbumIds
    /\ task[t].albumIds[1] = MaxAlbumId
    /\ <<MaxAlbumId, MaxAlbumId - 1>> \in task[t].before

\* n1 sorts before or with n2 in the collating order of Chars.
RECURSIVE NameLeq(_, _)
NameLeq(n1, n2) ==
  IF n1 = <<>> THEN TRUE
  ELSE IF n2 = <<>> THEN FALSE
  ELSE IF Head(n1) = Head(n2) THEN NameLeq(Tail(n1), Tail(n2))
  ELSE Rank(Head(n1)) < Rank(Head(n2))

\* C14: with no call in flight, the date-sorted listing returns the albums
\* by date descending, and albums of equal date by name ascending.
C14_DateThenName ==
  AtRest =>
    \A s \in findAllByDate :
      \A i \in 1..Len(s) : \A j \in 1..Len(s) :
        i < j => \/ s[i].date.day > s[j].date.day
                 \/ /\ s[i].date.day = s[j].date.day
                    /\ NameLeq(s[i].name, s[j].name)

\* C15: with no call in flight, no two albums have the same custom_order.
C15_PositionsDistinct ==
  AtRest =>
    \A r1 \in albums : \A r2 \in albums :
      r1.custom_order = r2.custom_order => r1.id = r2.id

\* C16: when reorderAlbums(list) has returned, either it succeeded and every
\* id of the list is an album whose position is its index in the list, or
\* no position differs from what it was when the call was made.
C16_ReorderAllOrNothing ==
  \A t \in Slots :
    (task[t].kind = "reorder" /\ task[t].pc = "done")
    => \/ /\ task[t].outcome = Ok
          /\ \A i \in 1..Len(task[t].albumIds) :
                \E r \in albums : /\ r.id = task[t].albumIds[i]
                                   /\ r.custom_order = i - 1
       \/ \A r \in albums : <<r.id, r.custom_order>> \in task[t].before

\* The four conditions on the arguments of create.
ValidAlbumInput(name, date) ==
  /\ Len(trim(name)) >= 1
  /\ Len(trim(name)) <= MaxNameLength
  /\ matchesDatePattern(date) /\ isValidDate(date)
  /\ ~isFutureDate(date)

\* C20: a create whose arguments break one of the four conditions has
\* failed with a validation error in its first segment, so it inserts no
\* album; hence a create that succeeds had arguments that satisfy all four.
C20_CreateValidates ==
  \A t \in Slots :
    (task[t].kind = "create" /\ ~ValidAlbumInput(task[t].name, task[t].date))
    => /\ task[t].pc = "done"
       /\ task[t].outcome \in {ErrNameRequired, ErrDateFormat, ErrDateInvalid}

\* C17: a create with valid name and date that found MaxAlbumCount albums
\* when it was called ends with the limit error, and the step that ends it
\* changes no album, no photo and no blob record.
C17_CreateAtLimitFails ==
  [][\A t \in Slots :
       (/\ task[t].kind = "create" /\ task[t].pc = "limit"
        /\ task[t].count >= MaxAlbumCount
        /\ task'[t] # task[t])
       => /\ task'[t].pc = "done"
          /\ task'[t].outcome = ErrAlbumLimit
          /\ albums' = albums /\ photos' = photos /\ blobs' = blobs]_vars

\* A create refused at the limit, with MaxAlbumCount albums still there.
C17_Witness ==
  \E t \in Slots :
    /\ task[t].kind = "create" /\ task[t].pc = "done"
    /\ task[t].outcome = ErrAlbumLimit
    /\ task[t].count = MaxAlbumCount
    /\ Cardinality(albums) = MaxAlbumCount

\* C18: an add of a file of a supported type that finds MaxPhotosPerAlbum
\* (or more) Photo rows in its album ends in its first segment with the
\* limit error, and that segment adds no Photo row and no blob record; the
\* call has ended, so it adds none later.
C18_AddToFullAlbumFails ==
  [][\A t \in Slots :
       (/\ task[t].pc = "idle" /\ task'[t].kind = "add"
        /\ uq'.files[t].type \in validFormats
        /\ Cardinality({r \in photos : r.album_id = task'[t].album})
             >= MaxPhotosPerAlbum)
       => /\ task'[t].pc = "done"
          /\ task'[t].outcome = ErrLimit
          /\ photos' = photos /\ blobs' = blobs]_vars

\* A file refused at the limit, with MaxPhotosPerAlbum rows and blob records
\* in the album.
C18_Witness ==
  \E t \in Slots :
    /\ task[t].kind = "add" /\ task[t].pc = "done" /\ task[t].outcome = ErrLimit
    /\ Cardinality({r \in photos : r.album_id = task[t].album}) = MaxPhotosPerAlbum
    /\ Cardinality({b \in blobs : b.albumId = task[t].album}) = MaxPhotosPerAlbum

\* C19: in every state the number of Photo rows of any album is at most
\* MaxPhotosPerAlbum.
C19_NeverAboveLimit ==
  \A a \in AlbumIds :
    Cardinality({r \in photos : r.album_id = a}) <= MaxPhotosPerAlbum

\* C26: every pipeline that has run its INSERT holds the id of the row it
\* inserted; every blob record lies under the id of the row of its own photo
\* (same album, same fingerprint); every successful entry names the id under
\* which both the row and the blob of its file are stored.
C26_BlobUnderOwnRowId ==
  /\ \A t \in Slots :
       (task[t].kind = "add" /\ task[t].id # 0)
       => [id |-> task[t].id, album_id |-> task[t].album,
           file_hash |-> task[t].hash] \in photos
  /\ \A b \in blobs :
       [id |-> b.id, album_id |-> b.albumId, file_hash |-> b.fileHash] \in photos
  /\ \A e \in uq.successful :
       Stored(uq.album, calculateFileHash(uq.files[e.file].bytes), e.photo)

\* Two pipelines had both inserted their rows before either blob was
\* written; the later row's blob was written first.
C26_Witness ==
  \E t1 \in Slots : \E t2 \in Slots :
    /\ task[t1].kind = "add" /\ task[t1].pc = "store"
    /\ task[t2].kind = "add" /\ task[t2].pc = "done" /\ task[t2].outcome = Ok
    /\ task[t2].id > task[t1].id
    /\ \E b \in blobs : b.id = task[t2].id

\* C25: in every reachable state the album id of every Photo row is the id
\* of an existing album, and every blob record belongs to an existing album.
C25_PhotosReferToAlbums ==
  /\ \A r \in photos : r.album_id \in AlbumIds
  /\ \A b \in blobs : b.albumId \in AlbumIds

\* C27: when uploadPhotos into the empty album has returned, a file reported
\* in failed or in duplicates whose content no other file of the batch has
\* left no Photo row and no blob record of that content, so the same file
\* passes the duplicate query when it is uploaded again.
C27_FailedAddedNothing ==
  uq.pc = "returned"
  => \A e \in uq.failed \cup uq.duplicates :
       (\A j \in 1..Len(uq.files) :
          j # e.file => uq.files[j].bytes # uq.files[e.file].bytes)
       => /\ findByAlbumAndHash(uq.album,
                                calculateFileHash(uq.files[e.file].bytes)) = {}
          /\ ~ \E b \in blobs :
                 b.fileHash = calculateFileHash(uq.files[e.file].bytes)

C30_NewAlbumIsLast ==
  \A t \in Slots :
    (task[t].kind = "create" /\ task[t].pc = "done" /\ task[t].outcome = Ok)
    => \E r \in albums :
         /\ r.id = task[t].id
         /\ \A o \in albums : o.id # r.id => o.custom_order < r.custom_order
         /\ \A s \in findAll : s[Len(s)] = r

\* An album created after a delete and a reorder had left the positions of
\* the other albums with a gap: its position is not the number of albums
\* less one.
C30_Witness ==
  \E t \in Slots :
    /\ task[t].kind = "create" /\ task[t].pc = "done" /\ task[t].outcome = Ok
    /\ Cardinality(albums) >= 2
    /\ \E r \in albums : /\ r.id = task[t].id
                          /\ r.custom_order # Cardinality(albums) - 1

\* C24: when every pipeline settles in the end, every uploadPhotos call
\* returns in the end, whatever the number of files and the order in which
\* the pipelines settle; once it has returned the queue is empty, no
\* pipeline is active or in flight and every file has completed.
C24_UploadReturns ==
  /\ (uq.pc # "idle") ~> (uq.pc = "returned")
  /\ [](uq.pc = "returned"
          => /\ uq.queue = <<>> /\ uq.active = {}
             /\ \A t \in Slots : task[t].pc = "idle"
             /\ uq.completed = Len(uq.files))

\* A batch larger than the window has returned with files stored and files
\* refused.
C24_Witness ==
  /\ uq.pc = "returned"
  /\ Len(uq.files) = MaxFiles
  /\ uq.successful # {}
  /\ uq.duplicates \cup uq.failed # {}

\* C29: calls made one after another: a step of update leaves the set of
\* album ids, every album's position and creation time, every row of any
\* other album, the Photo rows and the blob records as they were; and a
\* step that changes the position of an album is a step of reorderAlbums.
C29_UpdateFrame ==
  [][/\ (\E t \in Slots : task[t].kind = "update" \/ task'[t].kind = "update")
        => /\ {<<r.id, r.custom_order, r.created_at>> : r \in albums'}
                = {<<r.id, r.custom_order, r.created_at>> : r \in albums}
           /\ \A t \in Slots : \A r \in albums :
                (task'[t].kind = "update" /\ r.id # task'[t].album)
                => r \in albums'
           /\ photos' = photos /\ photoSeq' = photoSeq
           /\ blobs' = blobs
     /\ ({<<r.id, r.custom_order>> : r \in albums'}
           # {<<r.id, r.custom_order>> : r \in albums})
        => \E t \in Slots : task[t].kind = "reorder"]_vars

\* A successful update has given a new name and a new date to an album that
\* a reorder had moved, in a database that holds a stored photo.
C29_Witness ==
  \E t \in Slots :
    /\ task[t].kind = "update" /\ task[t].pc = "done" /\ task[t].outcome = Ok
    /\ \E r \in albums : /\ r.id = task[t].album
                          /\ r.name = <<"b">> /\ r.date.day = MaxDay
                          /\ r.custom_order # r.id - 1
    /\ photos # {} /\ blobs # {}

\* C28: whether or not onProgress throws, every call of onProgress has
\* current <= total, onProgress has been called once per file completed,
\* and process has not rejected while a pipeline is still in flight.
C28_CountedOnce ==
  /\ \A i \in 1..Len(uq.progress) : uq.progress[i].current <= uq.progress[i].total
  /\ Len(uq.progress) = Len(uq.files) - Len(uq.queue) - Cardinality(uq.active)
  /\ uq.pc = "rejected" => \A t \in Slots : ~InFlight(t)

\* C21: whenever a call has returned successfully, the database that
\* localStorage holds equals the database in memory, also when localStorage
\* is full.
C21_SavedWhenReturned ==
  \A t \in Slots :
    (task[t].pc = "done" /\ task[t].outcome = Ok) => Persisted = Database

\* C22: when the page has been loaded again after a successful
\* reorderAlbums, the load has succeeded and every album has the position
\* it had before the reload, so the custom-order listing is the same.
C22_OrderSurvivesReload ==
  (boot.reloads > 0 /\ <<"reorder", Ok>> \in boot.after)
  => /\ boot.status = "ok"
     /\ {<<r.id, r.custom_order>> : r \in albums} = boot.positions
====
